---------------------------- MODULE Spec2Model ----------------------------
(***************************************************************************)
(* A model of cosmICweb-music (src/cosmicweb_music/cosmICweb.py): the      *)
(* download of a configuration bundle, the per-halo ellipsoid fetch with   *)
(* its retry loop, the composition of the MUSIC template and the per-halo  *)
(* output files.                                                           *)
(*                                                                         *)
(* Text (Python str) is a sequence of pieces.  A piece is a string that    *)
(* holds no whitespace, no newline and no "="; the separators the code     *)
(* looks at (" ", "\t", "\r", "\n", "=", "/") are pieces of their own.     *)
(* An Optional value is None == << >> or Some(x) == << x >>.               *)
(***************************************************************************)
EXTENDS Integers, Sequences, FiniteSets, TLC

(***************************************************************************)
(* Bounds of the model.                                                    *)
(***************************************************************************)
MaxAttempts == 2
MaxHalos == 2
MaxEllipsoids == 2
MaxLines == 2

None == << >>
Some(x) == << x >>

NL == "\n"
CR == "\r"
EQ == "="
Whitespace == {" ", "\t", CR, NL}

(***************************************************************************)
(* Python string operations on texts.                                      *)
(***************************************************************************)
RECURSIVE Concat(_)
Concat(ss) == IF ss = << >> THEN << >> ELSE Head(ss) \o Concat(Tail(ss))

\* "sep".join(parts)
RECURSIVE Join(_, _)
Join(parts, sep) ==
    IF parts = << >> THEN << >>
    ELSE IF Len(parts) = 1 THEN parts[1]
    ELSE parts[1] \o sep \o Join(Tail(parts), sep)

\* text.split(c) for a one-piece separator c: always at least one part
RECURSIVE SplitFrom(_, _, _)
SplitFrom(text, c, cur) ==
    IF text = << >> THEN << cur >>
    ELSE IF Head(text) = c THEN << cur >> \o SplitFrom(Tail(text), c, << >>)
    ELSE SplitFrom(Tail(text), c, Append(cur, Head(text)))

Split(text, c) == SplitFrom(text, c, << >>)

RECURSIVE LStrip(_)
LStrip(text) ==
    IF text # << >> /\ Head(text) \in Whitespace THEN LStrip(Tail(text)) ELSE text

RECURSIVE RStrip(_)
RStrip(text) ==
    IF text # << >> /\ text[Len(text)] \in Whitespace
    THEN RStrip(SubSeq(text, 1, Len(text) - 1))
    ELSE text

\* text.strip()
Strip(text) == RStrip(LStrip(text))

IsPrefix(p, text) == Len(p) <= Len(text) /\ SubSeq(text, 1, Len(p)) = p

\* text.replace(old, new): every non-overlapping occurrence, left to right
RECURSIVE Replace(_, _, _)
Replace(text, old, new) ==
    IF text = << >> THEN << >>
    ELSE IF IsPrefix(old, text)
         THEN new \o Replace(SubSeq(text, Len(old) + 1, Len(text)), old, new)
         ELSE << Head(text) >> \o Replace(Tail(text), old, new)

\* str(n) of an integer
Str(n) == << ToString(n) >>

\* all sequences over S of length at most n
SeqsUpTo(S, n) == UNION { [1..k -> S] : k \in 0..n }


(***************************************************************************)
(* Data of the program (data_types.py) and of the server's responses.      *)
(***************************************************************************)
PLACEHOLDER == "<ELLIPSOID_TEMPLATE>"

\* the traceback radii the server may hold and the caller may ask for
Radii == {1, 2}

\* Ellipsoid(center, shape, traceback_radius, radius_definition)
Ellipsoids ==
    [center : {<<1, 2, 3>>, <<4, 5, 6>>},
     shape : {<< <<1, 0, 0>>, <<0, 1, 0>>, <<0, 0, 1>> >>},
     traceback_radius : Radii,
     radius_definition : {<<"Rvir">>}]

\* the body of a 2xx response to GET {halo_url}/ellipsoids, already turned
\* into Ellipsoid values (lines 73-82)
EllipsoidLists == SeqsUpTo(Ellipsoids, MaxEllipsoids)

\* the four sections of a simulation's "ics"
SectionsOf(setup) ==
    [setup |-> setup,
     cosmology |-> <<"Omega_m", " ", EQ, " ", "0.3">>,
     random |-> <<"cubesize", EQ, "256">>,
     poisson |-> <<"accuracy", " ", EQ, " ", "1e-5">>]

RunSetup == <<"zstart", " ", EQ, " ", "50", CR, NL, "levelmin", EQ, "7">>

SimulationOf(ics) ==
    [name |-> <<"SIM">>, project_name |-> <<"PROJ">>, api_url |-> <<"https://api">>,
     api_id |-> 7, api_token |-> <<"tok">>, ics |-> ics]

\* the "configuration" block of the single-target response
SettingsOf(outputType, outputOptions) ==
    [outputType |-> outputType,
     resolution |-> [low |-> 8, high |-> 12],
     outputOptions |-> outputOptions,
     startRedshift |-> 99,
     outputFilename |-> <<"ics.hdf5">>]

\* the halos of a single-target response (ids) and of a publication or
\* collection response (id and name, the name possibly null)
HaloIds == {1, 2}
PublishedHalos == {[id |-> 1, name |-> None], [id |-> 2, name |-> Some(<<"a">>)]}

(***************************************************************************)
(* The pure functions of cosmICweb.py.                                     *)
(***************************************************************************)
\* lines 92-94: next((e for e in ellipsoids if ...), None)
RECURSIVE FirstMatch(_, _)
FirstMatch(ellipsoids, traceback_radius) ==
    IF ellipsoids = << >> THEN None
    ELSE IF Head(ellipsoids).traceback_radius = traceback_radius
         THEN Some(Head(ellipsoids))
         ELSE FirstMatch(Tail(ellipsoids), traceback_radius)

\* a selection that keeps the last match instead of the first
RECURSIVE LastMatch(_, _)
LastMatch(ellipsoids, traceback_radius) ==
    IF ellipsoids = << >> THEN None
    ELSE IF ellipsoids[Len(ellipsoids)].traceback_radius = traceback_radius
         THEN Some(ellipsoids[Len(ellipsoids)])
         ELSE LastMatch(SubSeq(ellipsoids, 1, Len(ellipsoids) - 1), traceback_radius)

SelectEllipsoidLast(ellipsoids, traceback_radius) ==
    IF ellipsoids # << >> THEN LastMatch(ellipsoids, traceback_radius) ELSE None

\* fetch_ellipsoid once fetch_ellipsoids has returned `ellipsoids`
SelectEllipsoid(ellipsoids, traceback_radius) ==
    IF ellipsoids # << >> THEN FirstMatch(ellipsoids, traceback_radius) ELSE None

HaloUrl(sim, hid) ==
    sim.api_url \o <<"/simulation/">> \o Str(sim.api_id) \o <<"/halo/">> \o Str(hid)

\* fetch_downloadstore after a 2xx response
DownloadstoreConfig(content) ==
    [simulation_name |-> content.simulation.name,
     project_name |-> content.simulation.project_name,
     halo_names |-> [i \in DOMAIN content.halos |-> <<"halo_">> \o Str(content.halos[i])],
     halo_ids |-> content.halos,
     halo_urls |-> [i \in DOMAIN content.halos |-> HaloUrl(content.simulation, content.halos[i])],
     traceback_radius |-> content.traceback_radius,
     api_token |-> content.simulation.api_token,
     MUSIC |-> content.simulation.ics,
     settings |-> content.configuration]

\* lines 153-155 of fetch_multiple
PublishedName(h) == IF h.name = None THEN Str(h.id) ELSE h.name[1]

\* a fetch_multiple that names only the halos the server names
MultipleConfigSkipUnnamed(content, traceback_radius) ==
    [simulation_name |-> content.simulation.name,
     project_name |-> content.simulation.project_name,
     halo_names |-> SelectSeq([i \in DOMAIN content.halos |-> content.halos[i].name],
                              LAMBDA n : n # None),
     halo_ids |-> [i \in DOMAIN content.halos |-> content.halos[i].id],
     halo_urls |-> [i \in DOMAIN content.halos |-> HaloUrl(content.simulation, content.halos[i].id)],
     traceback_radius |-> traceback_radius,
     api_token |-> content.simulation.api_token,
     MUSIC |-> content.simulation.ics,
     settings |-> None]

\* fetch_multiple after a 2xx response
MultipleConfig(content, traceback_radius) ==
    [simulation_name |-> content.simulation.name,
     project_name |-> content.simulation.project_name,
     halo_names |-> [i \in DOMAIN content.halos |-> PublishedName(content.halos[i])],
     halo_ids |-> [i \in DOMAIN content.halos |-> content.halos[i].id],
     halo_urls |-> [i \in DOMAIN content.halos |-> HaloUrl(content.simulation, content.halos[i].id)],
     traceback_radius |-> traceback_radius,
     api_token |-> content.simulation.api_token,
     MUSIC |-> content.simulation.ics,
     settings |-> None]

normalize_lineendings(text) == Replace(text, <<CR, NL>>, <<NL>>)

\* a rewrite that rebuilds the line from the stripped name
ApplyLineStripped(line, parameters) ==
    LET param == Strip(Split(line, EQ)[1])
    IN IF param \in DOMAIN parameters
       THEN param \o <<" ", EQ, " ">> \o parameters[param]
       ELSE line

\* the body of the loop of apply_config_parameter
ApplyLine(line, parameters) ==
    LET before == Split(line, EQ)[1]
        param == Strip(before)
    IN IF param \in DOMAIN parameters
       THEN before \o <<EQ, " ">> \o parameters[param]
       ELSE line

apply_config_parameter(config, parameters) ==
    LET lines == Split(config, NL)
    IN Join([i \in DOMAIN lines |-> ApplyLine(lines[i], parameters)], <<NL>>)

\* the dict of lines 221-226
Parameters(settings) ==
    (<<"levelmin">> :> Str(settings.resolution.low))
    @@ (<<"levelmin", "_TF">> :> Str(settings.resolution.low))
    @@ (<<"levelmax">> :> Str(settings.resolution.high))
    @@ (<<"zstart">> :> Str(settings.startRedshift))

\* lines 212-217, on the normalized sections
AssembleSections(music_config) ==
    <<"[setup]", NL>> \o music_config.setup
    \o <<NL, NL, PLACEHOLDER, NL, NL, "[cosmology]", NL>> \o music_config.cosmology
    \o <<NL, NL, "[random]", NL>> \o music_config.random
    \o <<NL, NL, "[poisson]", NL>> \o music_config.poisson
    \o <<NL, NL>>

\* lines 229-236: the stripped f-string, a newline, one line per option
OutputSection(settings) ==
    Strip(<<NL, "[output]", NL, "format", " ", EQ, " ">> \o settings.outputType
          \o <<NL, "filename", " ", EQ, " ">> \o settings.outputFilename
          \o <<NL, " ">>)
    \o <<NL>>
    \o Concat([i \in DOMAIN settings.outputOptions |->
                 settings.outputOptions[i][1] \o <<" ", EQ, " ">>
                 \o settings.outputOptions[i][2] \o <<NL>>])

OutputStub == <<"[output]", NL, "# TODO: add output options">>

\* line 228: if settings["outputType"] (inside `if settings:`)
HasOutputType(settings) == settings # None /\ settings[1].outputType # << >>

\* a fallback that only looks at whether settings exist
NeedsStubWithoutSettings(settings) == settings = None

\* line 237: if not settings or not settings["outputType"]
NeedsStub(settings) == settings = None \/ settings[1].outputType = << >>

music_config_to_template(config) ==
    LET music_config == [k \in DOMAIN config.MUSIC |-> normalize_lineendings(config.MUSIC[k])]
        settings == config.settings
        assembled == AssembleSections(music_config)
        applied == IF settings # None
                   THEN apply_config_parameter(assembled, Parameters(settings[1]))
                   ELSE assembled
        withOutput == IF HasOutputType(settings)
                      THEN applied \o OutputSection(settings[1])
                      ELSE applied
    IN IF NeedsStub(settings) THEN withOutput \o OutputStub ELSE withOutput

\* ", ".join(str(x) for x in xs)
CommaJoin(xs) == Join([i \in DOMAIN xs |-> Str(xs[i])], <<",", " ">>)

compose_template(template, ellipsoid, config, halo_name, halo_id, now) ==
    LET ellipsoid_lines ==
            <<"# Ellipsoidal refinement region defined on unity cube", NL,
              "# This minimum bounding ellipsoid has been obtained from", NL,
              "# particles within ">> \o Str(ellipsoid.traceback_radius) \o <<" ">>
            \o ellipsoid.radius_definition \o <<" of the halo center", NL,
              "region = ellipsoid", NL,
              "region_ellipsoid_matrix[0] = ">> \o CommaJoin(ellipsoid.shape[1]) \o <<NL,
              "region_ellipsoid_matrix[1] = ">> \o CommaJoin(ellipsoid.shape[2]) \o <<NL,
              "region_ellipsoid_matrix[2] = ">> \o CommaJoin(ellipsoid.shape[3]) \o <<NL,
              "region_ellipsoid_center    = ">> \o CommaJoin(ellipsoid.center) \o <<NL>>
        config_header ==
            <<"# Zoom Initial Conditions for halo ">> \o Str(halo_id) \o <<" (">>
            \o halo_name \o <<") in simulation ">> \o config.simulation_name \o <<" (">>
            \o config.project_name \o <<" project)", NL,
              "# Details on this halo can be found on https://cosmicweb.eu/simulation/">>
            \o config.simulation_name \o <<"/halo/">> \o Str(halo_id) \o <<NL,
              "# This file has been generated by CosmICweb @">> \o now \o <<NL, NL, NL>>
    IN config_header \o Replace(template, <<PLACEHOLDER>>, ellipsoid_lines) \o <<NL>>

\* os.path.join(a, b)
PathJoin(a, b) ==
    IF b # << >> /\ Head(b) = "/" THEN b
    ELSE IF a = << >> \/ a[Len(a)] = "/" THEN a \o b
    ELSE a \o <<"/">> \o b

\* os.path.dirname(path): what precedes the last "/"
RECURSIVE Dirname(_)
Dirname(path) ==
    IF path = << >> THEN << >>
    ELSE IF path[Len(path)] = "/" THEN SubSeq(path, 1, Len(path) - 1)
    ELSE Dirname(SubSeq(path, 1, Len(path) - 1))

\* a choice of layout that forgets the number of halos
UseHaloDirectoryAlways(common_directory, ellipsoids) == common_directory

\* line 329: args.common_directory and len(ellipsoids) > 1
UseHaloDirectory(common_directory, ellipsoids) ==
    common_directory /\ Len(ellipsoids) > 1

\* lines 329-332
OutputFile(args, ellipsoids, halo_name) ==
    IF UseHaloDirectory(args.common_directory, ellipsoids)
    THEN PathJoin(PathJoin(args.output_path, halo_name), <<"ics.cfg">>)
    ELSE PathJoin(args.output_path, <<"ics_">> \o halo_name \o <<".cfg">>)

\* os.makedirs(dirname): the directory and every directory above it
PathPrefixes(path) ==
    { SubSeq(path, 1, n) : n \in { m \in 1..Len(path) : m = Len(path) \/ path[m + 1] = "/" } }

\* a loop that runs once more than range(attempts)
AnotherAttemptOffByOne(i, attempts) == i + 1 <= attempts

\* for i in range(attempts): is there another iteration after iteration i
AnotherAttempt(i, attempts) == i + 1 < attempts

(***************************************************************************)
(* Inputs: the command line, the server's responses, the user, the clock.  *)
(***************************************************************************)
Modes == {"get", "publication", "collection"}
DEFAULT_URL == <<"https://cosmicweb.eu">>
DefaultOutputPath == <<".", "/">>
OutputPaths == {DefaultOutputPath, <<"out">>}
PublicationName == <<"pub">>

\* --attempts, default=3
DefaultAttempts == 3

ArgsSet ==
    [url : {DEFAULT_URL}, output_path : OutputPaths,
     common_directory : BOOLEAN, attempts : (1..MaxAttempts) \cup {DefaultAttempts}]

RunSimulation == SimulationOf(SectionsOf(RunSetup))
RunSettings == {None, Some(SettingsOf(<<"hdf5">>, << << <<"gadget_lunit">>, <<"Mpc">> >> >>))}

\* bodies of a 2xx response of GET /api/music/store/{target}
DownloadstoreContents ==
    [simulation : {RunSimulation}, halos : SeqsUpTo(HaloIds, MaxHalos),
     traceback_radius : Radii, configuration : RunSettings]

\* bodies of a 2xx response of GET /api/publications/{name}, /api/collections/{uuid}
MultipleContents ==
    [simulation : {RunSimulation}, halos : SeqsUpTo(PublishedHalos, MaxHalos)]

\* datetime.now().isoformat()
Times == {<<"2024-04-20T22:26:13">>, <<"2024-04-21T00:03:24">>}

\* what the user may leave in the temporary file of edit_template
EditedTemplates(template) == {template, template \o <<NL, "# edited">>}

VARIABLES
    mode,              \* the subcommand: get, publication, collection
    args,              \* Args
    store,             \* the store parameter of the *_mode functions
    cli_radius,        \* --traceback_radius of publication/collection, else None
    pc,                \* where the run is
    content,           \* the JSON of the primary response, or None
    config,            \* the DownloadConfig, or None
    primary_requests,  \* GET requests for the primary bundle
    ellipsoids,        \* the list `ellipsoids` of process_config
    music_template,    \* the draft, or None
    composed,          \* calls of music_config_to_template
    editor_calls,      \* calls of edit_template
    next_halo,         \* index of the second loop of process_config
    output,            \* the list `output` of process_config
    written,           \* the calls of write_music_file: <<output_file, music_config>>
    dirs,              \* directories that exist
    raised,            \* the exception that ended the run, or None
    exit_status,       \* the process' exit status, or None while it runs
    call,              \* a call of fetch_ellipsoid: its traceback_radius and attempts
    fetch_pc,          \* where that call is
    attempt,           \* i of the loop of fetch_ellipsoids
    requests,          \* the outcomes of the GET requests of the call, in order
    fetched,           \* what fetch_ellipsoids returned, or None
    resolved           \* what fetch_ellipsoid returned (None or an Ellipsoid)

run_vars == <<mode, args, store, cli_radius, pc, content, config, primary_requests,
              ellipsoids, music_template, composed, editor_calls, next_halo, output,
              written, dirs, raised, exit_status>>

fetch_vars == <<call, fetch_pc, attempt, requests, fetched, resolved>>

vars == <<run_vars, fetch_vars>>

\* no call of fetch_ellipsoid is followed step by step
FetchIdle ==
    /\ call = None
    /\ fetch_pc = "idle"
    /\ attempt = 0
    /\ requests = << >>
    /\ fetched = None
    /\ resolved = None

\* the command line has been parsed, nothing has been requested
RunIdle ==
    /\ pc = "start"
    /\ content = None
    /\ config = None
    /\ primary_requests = 0
    /\ ellipsoids = << >>
    /\ music_template = None
    /\ composed = 0
    /\ editor_calls = 0
    /\ next_halo = 1
    /\ output = << >>
    /\ written = << >>
    /\ dirs = {args.output_path}
    /\ raised = None
    /\ exit_status = None

\* process_config is followed by the outcome of each fetch_ellipsoid call, which
\* args.attempts does not change: the runs start with the default
Init ==
    /\ mode \in Modes
    /\ args \in {a \in ArgsSet : a.attempts = DefaultAttempts}
    /\ store \in BOOLEAN
    /\ cli_radius \in IF mode = "get" THEN {None} ELSE {Some(r) : r \in Radii}
    /\ RunIdle
    /\ FetchIdle

NHalos == Len(config[1].halo_names)

\* downloadstore_mode / publication_mode / collection_mode: args._replace(output_path=...)
ModeOutputPath(m, a, cfg) ==
    IF m = "get"
    THEN IF a.output_path = DefaultOutputPath
         THEN <<".", "/", "cosmICweb-zooms-">> \o cfg.simulation_name
         ELSE a.output_path
    ELSE IF m = "publication"
         THEN PathJoin(a.output_path, PublicationName)
         ELSE PathJoin(a.output_path, cfg.simulation_name)

\* the *_mode function up to its call of process_config, on a 2xx response
EnterProcessConfig(c, cfg) ==
    /\ primary_requests' = primary_requests + 1
    /\ content' = Some(c)
    /\ config' = Some(cfg)
    /\ args' = [args EXCEPT !.output_path = ModeOutputPath(mode, args, cfg)]
    /\ pc' = IF cfg.halo_names = << >> THEN "template" ELSE "fetch"
    /\ UNCHANGED <<mode, store, cli_radius, ellipsoids, music_template, composed,
                   editor_calls, next_halo, output, written, dirs, raised, exit_status>>
    /\ UNCHANGED fetch_vars

\* fetch_downloadstore, 2xx
FetchDownloadstoreOk ==
    /\ pc = "start" /\ mode = "get"
    /\ \E c \in DownloadstoreContents : EnterProcessConfig(c, DownloadstoreConfig(c))

\* fetch_multiple, 2xx
FetchMultipleOk ==
    /\ pc = "start" /\ mode # "get"
    /\ \E c \in MultipleContents : EnterProcessConfig(c, MultipleConfig(c, cli_radius[1]))

\* an exception nothing catches ends the process: sys.exit(1) raises
\* SystemExit(1); any other exception prints its traceback and the interpreter
\* ends with status 1
Terminate(exception) ==
    /\ pc' = "exited"
    /\ raised' = Some(exception)
    /\ exit_status' = Some(1)

\* a mandatory fetch that is tried a second time before giving up
PrimaryFailureRetry(exception) ==
    /\ pc = "start"
    /\ primary_requests' = primary_requests + 1
    /\ IF primary_requests < 1
       THEN UNCHANGED <<pc, raised, exit_status>>
       ELSE Terminate(exception)
    /\ UNCHANGED <<mode, args, store, cli_radius, content, config, ellipsoids,
                   music_template, composed, editor_calls, next_halo, output, written,
                   dirs>>
    /\ UNCHANGED <<call, fetch_pc, attempt, requests, fetched, resolved>>

PrimaryFailure(exception) ==
    /\ pc = "start"
    /\ primary_requests' = primary_requests + 1
    /\ Terminate(exception)
    /\ UNCHANGED <<mode, args, store, cli_radius, content, config, ellipsoids,
                   music_template, composed, editor_calls, next_halo, output, written,
                   dirs>>
    /\ UNCHANGED fetch_vars

\* raise_for_status raises HTTPError: logged as critical, sys.exit(1)
FetchConfigHTTPError == PrimaryFailure("SystemExit")

\* requests.get raises a transport error (ConnectionError, Timeout), which is
\* no HTTPError: the except clause does not apply
FetchConfigTransportError == PrimaryFailure("ConnectionError")

(***************************************************************************)
(* fetch_ellipsoid and fetch_ellipsoids, request by request: a call with   *)
(* the parameters `call`.                                                  *)
(***************************************************************************)
\* one iteration of the loop of fetch_ellipsoids: 2xx, the list is returned
EllipsoidsOk ==
    /\ fetch_pc = "loop"
    /\ requests' = Append(requests, "2xx")
    /\ \E list \in EllipsoidLists : fetched' = Some(list)
    /\ fetch_pc' = "returned"
    /\ UNCHANGED <<call, attempt, resolved>>
    /\ UNCHANGED run_vars

\* one iteration: raise_for_status raises HTTPError, which is caught and logged;
\* the loop goes on, or ends and [] is returned
EllipsoidsHTTPError ==
    /\ fetch_pc = "loop"
    /\ requests' = Append(requests, "HTTPError")
    /\ IF AnotherAttempt(attempt, call[1].attempts)
       THEN /\ attempt' = attempt + 1
            /\ UNCHANGED <<fetched, fetch_pc>>
       ELSE /\ fetched' = Some(<< >>)
            /\ fetch_pc' = "returned"
            /\ UNCHANGED attempt
    /\ UNCHANGED <<call, resolved>>
    /\ UNCHANGED run_vars

\* one iteration: requests.get raises a transport error; `except HTTPError` does
\* not catch it and neither does fetch_ellipsoid: the call raises
EllipsoidsTransportError ==
    /\ fetch_pc = "loop"
    /\ requests' = Append(requests, "ConnectionError")
    /\ fetch_pc' = "raised"
    /\ UNCHANGED <<call, attempt, fetched, resolved>>
    /\ UNCHANGED run_vars

\* lines 91-95 of fetch_ellipsoid
SelectAndReturn ==
    /\ fetch_pc = "returned"
    /\ resolved' = SelectEllipsoid(fetched[1], call[1].traceback_radius)
    /\ fetch_pc' = "done"
    /\ UNCHANGED <<call, attempt, requests, fetched>>
    /\ UNCHANGED run_vars

InitFetch ==
    /\ mode = "get"
    /\ args \in {a \in ArgsSet : /\ a.output_path = DefaultOutputPath
                                  /\ ~a.common_directory
                                  /\ a.attempts \in 1..MaxAttempts}
    /\ store = FALSE
    /\ cli_radius = None
    /\ RunIdle
    /\ call \in {Some([traceback_radius |-> r, attempts |-> args.attempts]) : r \in Radii}
    /\ fetch_pc = "loop"
    /\ attempt = 0
    /\ requests = << >>
    /\ fetched = None
    /\ resolved = None

NextFetch ==
    \/ EllipsoidsOk
    \/ EllipsoidsHTTPError
    \/ EllipsoidsTransportError
    \/ SelectAndReturn

SpecFetch == InitFetch /\ [][NextFetch]_vars

(***************************************************************************)
(* process_config, first loop: one call of fetch_ellipsoid per halo, by    *)
(* its outcome.  The halo being fetched is Len(ellipsoids) + 1.            *)
(***************************************************************************)
CurrentHalo == Len(ellipsoids) + 1

AppendEllipsoid(ellipsoid) ==
    /\ ellipsoids' = Append(ellipsoids, ellipsoid)
    /\ pc' = IF CurrentHalo = NHalos THEN "template" ELSE "fetch"
    /\ UNCHANGED <<mode, args, store, cli_radius, content, config, primary_requests,
                   music_template, composed, editor_calls, next_halo, output, written,
                   dirs, raised, exit_status>>
    /\ UNCHANGED fetch_vars

\* some request of the call gets a 2xx response with `list`
ResolveHalo ==
    /\ pc = "fetch"
    /\ \E list \in EllipsoidLists :
        AppendEllipsoid(SelectEllipsoid(list, config[1].traceback_radius))

\* every request of the call gets a non-2xx response: fetch_ellipsoids returns []
ResolveHaloExhausted ==
    /\ pc = "fetch"
    /\ AppendEllipsoid(SelectEllipsoid(<< >>, config[1].traceback_radius))

\* a request of the call raises a transport error, which nothing catches
ResolveHaloRaises ==
    /\ pc = "fetch"
    /\ Terminate("ConnectionError")
    /\ UNCHANGED <<mode, args, store, cli_radius, content, config, primary_requests,
                   ellipsoids, music_template, composed, editor_calls, next_halo,
                   output, written, dirs>>
    /\ UNCHANGED fetch_vars

(***************************************************************************)
(* process_config, the template and the second loop.                       *)
(***************************************************************************)
\* lines 305-306
ComposeDraft ==
    /\ pc = "template"
    /\ music_template' = Some(music_config_to_template(config[1]))
    /\ composed' = composed + 1
    /\ pc' = IF store THEN "query" ELSE "compose"
    /\ UNCHANGED <<mode, args, store, cli_radius, content, config, primary_requests,
                   ellipsoids, editor_calls, next_halo, output, written, dirs, raised,
                   exit_status>>
    /\ UNCHANGED fetch_vars

\* query_yes_no answers no
QueryNo ==
    /\ pc = "query"
    /\ pc' = "compose"
    /\ UNCHANGED <<mode, args, store, cli_radius, content, config, primary_requests,
                   ellipsoids, music_template, composed, editor_calls, next_halo,
                   output, written, dirs, raised, exit_status>>
    /\ UNCHANGED fetch_vars

\* query_yes_no answers yes: edit_template
QueryYesEdit ==
    /\ pc = "query"
    /\ \E edited \in EditedTemplates(music_template[1]) : music_template' = Some(edited)
    /\ editor_calls' = editor_calls + 1
    /\ pc' = "compose"
    /\ UNCHANGED <<mode, args, store, cli_radius, content, config, primary_requests,
                   ellipsoids, composed, next_halo, output, written, dirs, raised,
                   exit_status>>
    /\ UNCHANGED fetch_vars

\* an iteration of the second loop with ellipsoid None: warning, continue
SkipHalo ==
    /\ pc = "compose" /\ next_halo <= NHalos
    /\ ellipsoids[next_halo] = None
    /\ next_halo' = next_halo + 1
    /\ UNCHANGED <<mode, args, store, cli_radius, pc, content, config, primary_requests,
                   ellipsoids, music_template, composed, editor_calls, output, written,
                   dirs, raised, exit_status>>
    /\ UNCHANGED fetch_vars

\* an iteration that, when persisting, writes the shared draft itself instead of
\* the file composed for the halo
ProduceHaloStoresDraft ==
    /\ pc = "compose" /\ next_halo <= NHalos
    /\ ellipsoids[next_halo] # None
    /\ \E now \in Times :
        LET halo_name == config[1].halo_names[next_halo]
            halo_id == config[1].halo_ids[next_halo]
            music_config == compose_template(music_template[1], ellipsoids[next_halo][1],
                                             config[1], halo_name, halo_id, now)
            output_file == OutputFile(args, ellipsoids, halo_name)
        IN IF store
           THEN /\ written' = Append(written, <<output_file, music_template[1]>>)
                /\ dirs' = dirs \cup PathPrefixes(Dirname(output_file))
                /\ UNCHANGED output
           ELSE /\ output' = Append(output, <<output_file, music_config>>)
                /\ UNCHANGED <<written, dirs>>
    /\ next_halo' = next_halo + 1
    /\ UNCHANGED <<mode, args, store, cli_radius, pc, content, config, primary_requests,
                   ellipsoids, music_template, composed, editor_calls, raised,
                   exit_status>>
    /\ UNCHANGED fetch_vars

\* an iteration of the second loop with an ellipsoid: compose, then write or collect
ProduceHalo ==
    /\ pc = "compose" /\ next_halo <= NHalos
    /\ ellipsoids[next_halo] # None
    /\ \E now \in Times :
        LET halo_name == config[1].halo_names[next_halo]
            halo_id == config[1].halo_ids[next_halo]
            music_config == compose_template(music_template[1], ellipsoids[next_halo][1],
                                             config[1], halo_name, halo_id, now)
            output_file == OutputFile(args, ellipsoids, halo_name)
        IN IF store
           THEN /\ written' = Append(written, <<output_file, music_config>>)
                /\ dirs' = dirs \cup PathPrefixes(Dirname(output_file))
                /\ UNCHANGED output
           ELSE /\ output' = Append(output, <<output_file, music_config>>)
                /\ UNCHANGED <<written, dirs>>
    /\ next_halo' = next_halo + 1
    /\ UNCHANGED <<mode, args, store, cli_radius, pc, content, config, primary_requests,
                   ellipsoids, music_template, composed, editor_calls, raised,
                   exit_status>>
    /\ UNCHANGED fetch_vars

\* the second loop is over: return output
Return ==
    /\ pc = "compose" /\ next_halo > NHalos
    /\ pc' = "done"
    /\ exit_status' = Some(0)
    /\ UNCHANGED <<mode, args, store, cli_radius, content, config, primary_requests,
                   ellipsoids, music_template, composed, editor_calls, next_halo,
                   output, written, dirs, raised>>
    /\ UNCHANGED fetch_vars

Next ==
    \/ FetchDownloadstoreOk
    \/ FetchMultipleOk
    \/ FetchConfigHTTPError
    \/ FetchConfigTransportError
    \/ ResolveHalo
    \/ ResolveHaloExhausted
    \/ ResolveHaloRaises
    \/ ComposeDraft
    \/ QueryNo
    \/ QueryYesEdit
    \/ SkipHalo
    \/ ProduceHalo
    \/ Return

Spec == Init /\ [][Next]_vars

(***************************************************************************)
(* music_config_to_template on its own: process_config entered at line 305 *)
(* with a configuration that has no halo, over a variety of section texts  *)
(* and settings.                                                           *)
(***************************************************************************)
TemplateLines ==
    { <<"levelmin", " ", EQ, " ", "7">>,
      <<"levelmin", "_TF", "\t", EQ, "7">>,
      <<" ", "levelmax", EQ, "7", " ", "#", "fine">>,
      <<"zstart", EQ, "50", EQ, "x">>,
      <<"levelmin">>,
      <<"#", "levelmin", EQ, "7">>,
      <<"boxlength", " ", EQ, " ", "150">>,
      << >> }

LineEnds == {<<NL>>, <<CR, NL>>}

SetupTexts ==
    { Join(lines, eol) : lines \in SeqsUpTo(TemplateLines, MaxLines), eol \in LineEnds }

PoissonTexts == { <<"accuracy", " ", EQ, " ", "1e-5">>, <<"levelmax", EQ, "3", CR, NL>> }

TemplateSections ==
    { [SectionsOf(setup) EXCEPT !.poisson = poisson] :
        setup \in SetupTexts, poisson \in PoissonTexts }

OutputOptionLists ==
    { << >>,
      << << <<"gadget_lunit">>, <<"Mpc">> >>, << <<"gadget_num_files">>, <<"8">> >> >> }

TemplateSettings ==
    {None} \cup { Some(SettingsOf(t, o)) : t \in {<< >>, <<"hdf5">>}, o \in OutputOptionLists }

TemplateConfigs ==
    { [DownloadstoreConfig([simulation |-> SimulationOf(ics), halos |-> << >>,
                            traceback_radius |-> 2, configuration |-> settings])
         EXCEPT !.settings = settings] :
        ics \in TemplateSections, settings \in TemplateSettings }

InitTemplate ==
    /\ mode = "get"
    /\ args \in {a \in ArgsSet : /\ a.output_path = DefaultOutputPath
                                  /\ ~a.common_directory
                                  /\ a.attempts = DefaultAttempts}
    /\ store = FALSE
    /\ cli_radius = None
    /\ RunIdle
    /\ FetchIdle

\* process_config(config, args, store=False) is called with one of TemplateConfigs
CallProcessConfig ==
    /\ pc = "start"
    /\ \E cfg \in TemplateConfigs : config' = Some(cfg)
    /\ pc' = "template"
    /\ UNCHANGED <<mode, args, store, cli_radius, content, primary_requests, ellipsoids,
                   music_template, composed, editor_calls, next_halo, output, written,
                   dirs, raised, exit_status>>
    /\ UNCHANGED fetch_vars

NextTemplate ==
    \/ CallProcessConfig
    \/ ComposeDraft

SpecTemplate == InitTemplate /\ [][NextTemplate]_vars

(***************************************************************************)
(* The claims.                                                             *)
(***************************************************************************)
Range(f) == { f[i] : i \in DOMAIN f }

\* C1: a call of fetch_ellipsoids issues at most `attempts` GET requests, no
\* request follows a 2xx response, and when every request got a non-2xx
\* response the call reports failure (returns []) after exactly `attempts`
\* requests.
C1_BoundedRetries ==
    fetch_pc # "idle" =>
        /\ Len(requests) <= call[1].attempts
        /\ \A j \in 1..(Len(requests) - 1) : requests[j] # "2xx"
        /\ ("2xx" \in Range(requests) => fetch_pc # "loop")
        /\ (fetch_pc \in {"returned", "done"} /\ Range(requests) = {"HTTPError"}) =>
                /\ Len(requests) = call[1].attempts
                /\ fetched = Some(<< >>)
        /\ (Range(requests) = {"HTTPError"} /\ Len(requests) = call[1].attempts) =>
                fetch_pc \in {"returned", "done"}

\* a call that has failed after two or more requests, all of them non-2xx
C1_Witness ==
    /\ fetch_pc = "returned"
    /\ Len(requests) = call[1].attempts
    /\ Len(requests) >= 2
    /\ Range(requests) = {"HTTPError"}
    /\ fetched = Some(<< >>)

\* C2: a failed attempt is retried whether it failed with a non-2xx response
\* or with a transport error: another attempt follows while fewer than
\* `attempts` were made, and after `attempts` failures of either kind the
\* call returns Absent (None) instead of raising.
C2_EveryFailureRetried ==
    (fetch_pc # "idle" /\ requests # << >> /\ "2xx" \notin Range(requests)) =>
        /\ fetch_pc # "raised"
        /\ Len(requests) < call[1].attempts => fetch_pc = "loop"
        /\ Len(requests) = call[1].attempts => fetch_pc \in {"returned", "done"}
        /\ fetch_pc = "done" => resolved = None

\* C4: fetch_ellipsoid returns the first element of the fetched list, in list
\* order, whose traceback_radius equals the requested one, and returns None
\* exactly when the list fetch failed, the list is empty or no element has
\* that traceback_radius.
C4_FirstExactMatch ==
    fetch_pc = "done" =>
        LET list == fetched[1]
            r == call[1].traceback_radius
            matches == { j \in DOMAIN list : list[j].traceback_radius = r }
            failed == "2xx" \notin Range(requests)
        IN /\ matches # {} =>
                \E j \in matches :
                    /\ \A m \in matches : j <= m
                    /\ resolved = Some(list[j])
           /\ resolved = None <=> (failed \/ list = << >> \/ matches = {})

\* a list with two different elements of the requested radius, the first returned
C4_Witness ==
    /\ fetch_pc = "done"
    /\ Len(fetched[1]) = 2
    /\ fetched[1][1] # fetched[1][2]
    /\ fetched[1][1].traceback_radius = call[1].traceback_radius
    /\ fetched[1][2].traceback_radius = call[1].traceback_radius
    /\ resolved = Some(fetched[1][1])

\* what the run has produced so far: the files written, or the pairs collected
Produced == IF store THEN written ELSE output

\* the indices of the halos whose ellipsoid was resolved, in source order
RECURSIVE ResolvedFrom(_, _)
ResolvedFrom(es, i) ==
    IF i > Len(es) THEN << >>
    ELSE (IF es[i] # None THEN << i >> ELSE << >>) \o ResolvedFrom(es, i + 1)

ResolvedIndices == ResolvedFrom(ellipsoids, 1)

\* the mandatory fetch failed: the run ended before any DownloadConfig existed
PrimaryFetchFailed == pc = "exited" /\ config = None

\* C3: when the mandatory fetch of the primary bundle fails, the process ends
\* with exit status 1 after exactly one request, and the run has fetched no
\* ellipsoid, composed no template, called no editor and written no file.
C3_PrimaryFailureIsFatal ==
    PrimaryFetchFailed =>
        /\ exit_status = Some(1)
        /\ primary_requests = 1
        /\ ellipsoids = << >>
        /\ composed = 0 /\ music_template = None
        /\ editor_calls = 0
        /\ output = << >> /\ written = << >>
        /\ dirs = {args.output_path}

\* the primary request got a non-2xx response and sys.exit(1) ended the run
C3_Witness ==
    /\ PrimaryFetchFailed
    /\ raised = Some("SystemExit")
    /\ primary_requests = 1
    /\ exit_status = Some(1)

\* C5: process_config runs to completion whatever the outcomes of the per-halo
\* fetches, and produces output for exactly the halos whose ellipsoid was
\* resolved, in source order, each composed from the name, id and ellipsoid of
\* that halo index.
C5_EveryResolvedHaloProduced ==
    (config # None /\ pc \in {"done", "exited"}) =>
        /\ pc = "done"
        /\ Len(ellipsoids) = NHalos
        /\ Len(Produced) = Len(ResolvedIndices)
        /\ \A j \in DOMAIN Produced :
            LET i == ResolvedIndices[j]
            IN \E now \in Times :
                Produced[j][2] = compose_template(music_template[1], ellipsoids[i][1],
                                                  config[1], config[1].halo_names[i],
                                                  config[1].halo_ids[i], now)

\* the two layouts the claims name, written out
HaloDirectoryPath(output_path, halo_name) ==
    output_path \o <<"/">> \o halo_name \o <<"/", "ics.cfg">>

FlatPath(output_path, halo_name) ==
    output_path \o <<"/", "ics_">> \o halo_name \o <<".cfg">>

\* every produced path has the layout chosen by `perHalo`
PathsFollow(perHalo) ==
    \A j \in DOMAIN Produced :
        LET halo_name == config[1].halo_names[ResolvedIndices[j]]
        IN Produced[j][1] = IF perHalo
                            THEN HaloDirectoryPath(args.output_path, halo_name)
                            ELSE FlatPath(args.output_path, halo_name)

ProducedDirectories == { Dirname(Produced[j][1]) : j \in DOMAIN Produced }

\* C7: with common_directory the files of all halos of a run are in one shared
\* directory; without it, in a run with several halos, each halo's file is in a
\* subdirectory of its own.
C7_CommonDirectoryIsShared ==
    pc = "done" =>
        /\ args.common_directory => Cardinality(ProducedDirectories) <= 1
        /\ (~args.common_directory /\ NHalos > 1) =>
                \A j \in DOMAIN Produced :
                    Dirname(Produced[j][1]) =
                        args.output_path \o <<"/">>
                        \o config[1].halo_names[ResolvedIndices[j]]

\* C8: the halo_names, halo_ids and halo_urls of every DownloadConfig built
\* from a response have the length of the response's halo list, and at every
\* index they are the id, the URL and the name of the halo at that index.
C8_HaloListsAligned ==
    (config # None /\ content # None) =>
        LET cfg == config[1]
            sim == content[1].simulation
            halos == content[1].halos
            id(i) == IF mode = "get" THEN halos[i] ELSE halos[i].id
            name(i) == IF mode = "get" THEN <<"halo_", ToString(halos[i])>>
                       ELSE IF halos[i].name = None THEN <<ToString(halos[i].id)>>
                       ELSE halos[i].name[1]
        IN /\ Len(cfg.halo_names) = Len(halos)
           /\ Len(cfg.halo_ids) = Len(halos)
           /\ Len(cfg.halo_urls) = Len(halos)
           /\ \A i \in DOMAIN halos :
                /\ cfg.halo_ids[i] = id(i)
                /\ cfg.halo_names[i] = name(i)
                /\ cfg.halo_urls[i] =
                     sim.api_url \o <<"/simulation/", ToString(sim.api_id), "/halo/",
                                      ToString(cfg.halo_ids[i])>>

\* a publication of two halos, the first unnamed and the second named
C8_Witness ==
    /\ config # None /\ content # None
    /\ mode = "publication"
    /\ Len(config[1].halo_names) = 2
    /\ content[1].halos[1].name = None
    /\ content[1].halos[2].name # None
    /\ config[1].halo_names[1] # config[1].halo_names[2]

\* the text of a line before its first "=", the whole line when it has none
BeforeFirstEq(line) ==
    IF EQ \in Range(line)
    THEN SubSeq(line, 1, (CHOOSE j \in DOMAIN line :
                            line[j] = EQ /\ \A m \in 1..(j - 1) : line[m] # EQ) - 1)
    ELSE line

\* the four sections under their headers, line endings normalized, before any
\* parameter is rewritten and before [output] is appended
SectionText ==
    AssembleSections([k \in DOMAIN config[1].MUSIC |->
                        normalize_lineendings(config[1].MUSIC[k])])

DraftComposed == pc = "compose" /\ music_template # None

\* C9: with settings, every line of the section text whose stripped text before
\* the first "=" is levelmin, levelmin_TF, levelmax or zstart keeps that text
\* and gets resolution.low, resolution.low, resolution.high and startRedshift
\* as its value, and every other line is unchanged in the draft.
C9_ParametersRewritten ==
    (DraftComposed /\ config[1].settings # None) =>
        LET settings == config[1].settings[1]
            old == Split(SectionText, NL)
            new == Split(music_template[1], NL)
            value(name) ==
                IF name \in {<<"levelmin">>, <<"levelmin", "_TF">>}
                THEN <<ToString(settings.resolution.low)>>
                ELSE IF name = <<"levelmax">>
                     THEN <<ToString(settings.resolution.high)>>
                     ELSE <<ToString(settings.startRedshift)>>
        IN /\ Len(new) >= Len(old)
           /\ \A i \in 1..(Len(old) - 1) :
                LET before == BeforeFirstEq(old[i])
                    name == Strip(before)
                IN IF name \in {<<"levelmin">>, <<"levelmin", "_TF">>,
                                <<"levelmax">>, <<"zstart">>}
                   THEN new[i] = before \o <<EQ, " ">> \o value(name)
                   ELSE new[i] = old[i]

\* a draft in which an indented levelmax line lost its comment to the new value
\* while a comment line naming levelmin was left as it was
C9_Witness ==
    /\ DraftComposed
    /\ config[1].settings # None
    /\ LET lines == Range(Split(music_template[1], NL))
       IN /\ <<" ", "levelmax", EQ, " ", "12">> \in lines
          /\ <<"#", "levelmin", EQ, "7">> \in lines

Count(text, piece) == Cardinality({ i \in DOMAIN text : text[i] = piece })

PositionOf(text, piece) == CHOOSE i \in DOMAIN text : text[i] = piece

NotProduced == IF store THEN output ELSE written

\* the draft music_config_to_template gives for the run's configuration
UneditedDraft == music_config_to_template(config[1])

\* the (path, content) pair of halo index i composed from `draft` at time `now`
PairOf(draft, i, now) ==
    <<OutputFile(args, ellipsoids, config[1].halo_names[i]),
      compose_template(draft, ellipsoids[i][1], config[1], config[1].halo_names[i],
                       config[1].halo_ids[i], now)>>

\* a completed run produced, in its mode, the pairs that the configuration,
\* the arguments and the resolved ellipsoids determine from `draft`
PairsDeterminedBy(draft) ==
    /\ NotProduced = << >>
    /\ Len(Produced) = Len(ResolvedIndices)
    /\ \A j \in DOMAIN Produced :
        \E now \in Times : Produced[j] = PairOf(draft, ResolvedIndices[j], now)

\* C11 as stated: for the same download configuration, run arguments and
\* ellipsoid responses, the (path, content) pairs written with store = true
\* are the pairs returned with store = false, that is, in either mode they are
\* the pairs these inputs determine (from the draft of the configuration, at
\* the clock readings of the run).
C11_SamePairsInBothModes ==
    pc = "done" => PairsDeterminedBy(UneditedDraft)

\* C11 amended: for the same download configuration, run arguments, ellipsoid
\* responses and clock readings, the pairs written with store = true are the
\* pairs returned with store = false provided the user left the draft as it
\* was composed (declined the editor, or saved it unchanged); the editor is
\* offered with store = true only.
C11_SamePairsUnlessEdited ==
    (pc = "done" /\ music_template = Some(UneditedDraft))
        => PairsDeterminedBy(UneditedDraft)

\* a persisting run that opened the editor, kept the draft and wrote two files
C11_Witness ==
    /\ pc = "done" /\ store
    /\ editor_calls = 1
    /\ music_template = Some(UneditedDraft)
    /\ Len(written) = 2
    /\ PairsDeterminedBy(UneditedDraft)

\* process_config has been entered
InProcessConfig == config # None

\* what holds of the stages at every moment of a run of process_config, and
\* at its end
StagesState ==
    InProcessConfig =>
        /\ Len(ellipsoids) <= NHalos
        /\ composed <= 1
        /\ editor_calls <= 1
        /\ composed = 1 => Len(ellipsoids) = NHalos
        /\ editor_calls = 1 => composed = 1
        /\ Produced # << >> => composed = 1
        /\ Len(Produced) <= Len(ResolvedIndices)
        /\ \A j \in DOMAIN Produced :
            \E now \in Times : Produced[j] = PairOf(music_template[1], ResolvedIndices[j], now)
        /\ pc \in {"done", "exited"} =>
            /\ Len(ellipsoids) = NHalos
            /\ composed = 1

\* what holds of every step of a run of process_config
StagesStep ==
    /\ ellipsoids' # ellipsoids =>
        /\ composed = 0
        /\ Len(ellipsoids') = Len(ellipsoids) + 1
        /\ SubSeq(ellipsoids', 1, Len(ellipsoids)) = ellipsoids
    /\ composed' # composed =>
        /\ composed' = composed + 1
        /\ Len(ellipsoids) = NHalos
        /\ editor_calls = 0
        /\ written = << >> /\ output = << >>
    /\ editor_calls' # editor_calls =>
        /\ editor_calls' = editor_calls + 1
        /\ composed = 1
        /\ next_halo = 1
        /\ written = << >> /\ output = << >>
    /\ music_template' # music_template =>
        composed' # composed \/ editor_calls' # editor_calls
    /\ (written' # written \/ output' # output) =>
        /\ composed = 1
        /\ music_template' = music_template

\* C12: in every run of process_config the ellipsoid resolver is invoked
\* exactly once per halo in source order, the draft is composed exactly once
\* after those resolutions, the editor is invoked at most once, after the
\* draft is composed and before any per-halo composition or write, and every
\* per-halo file of the run is composed from that one (possibly edited) draft.
C12_StagesInOrder == []StagesState /\ [][StagesStep]_vars

=============================================================================
